---- MODULE Spec2Model ----
(***************************************************************************)
(* bulk_fhir_fetch: the run orchestrator mainWrapper and the resilient     *)
(* fetcher getDataOrExit of cmd/bulk_fhir_fetch/bulk_fhir_fetch.go.        *)
(*                                                                         *)
(* One run of mainWrapper is a walk of pc through the statements of the    *)
(* function.  The export client, the job monitor, the checkpoint store and *)
(* the processing pipeline are collaborators: every call to one of them    *)
(* has its outcome chosen by the environment.                              *)
(***************************************************************************)
EXTENDS Integers, Sequences, FiniteSets, TLC

\* ------------------------------------------------------------------ bounds
\* Most status events the job monitor yields in one run.
MaxPolls == 2
\* Most result URLs listed under one resource type.
MaxURLs == 2
\* Most newline-delimited records read from one result stream.
MaxLines == 1
\* Most runs that share one since file (specification SpecRuns).
MaxRuns == 2

\* ------------------------------------------------------- program constants
\* numRetries < 5 in the retry loop of getDataOrExit.
MaxRetries == 5
\* maxTokenSize and initialBufferSize, in bytes.
maxTokenSize == 500 * 1024
initialBufferSize == 5 * 1024

\* ------------------------------------------------------------------ values
Nil == "nil"
\* FHIR instants a server may report as a transaction time.
Instants == {"2021-05-01T00:00:00.000+00:00", "2021-06-01T00:00:00.000+00:00"}
\* A non-empty text that does not parse as a FHIR instant.
Garbage == "not-a-timestamp"
\* The texts a since flag or the last line of a since file may hold.
SinceTexts == {"2021-05-01T00:00:00.000+00:00", Garbage}
ResourceTypes == {"Patient", "Coverage"}
LocalSinceFile == "since.txt"
GCSSinceFile == "gs://bucket/since.txt"
PendingJob == "https://server/jobs/pending"
StartedJob == "https://server/jobs/started"

\* strings.HasPrefix(cfg.sinceFile, "gs://") over the paths of the model.
HasGCSPrefix(path) == path = GCSSinceFile

\* The value a parsed timestamp text stands for: Nil when it does not parse.
ParseInstant(text) == IF text \in Instants THEN text ELSE Nil

\* ------------------------------------------------------------ configuration
\* A configuration that passes every check: file output, no FHIR store upload.
BaseConfig ==
  [clientID |-> "id", clientSecret |-> "secret", outputPrefix |-> "out/",
   rectify |-> TRUE, enableFHIRStore |-> FALSE,
   fhirStoreGCPProject |-> "project", fhirStoreGCPLocation |-> "location",
   fhirStoreGCPDatasetID |-> "dataset", fhirStoreID |-> "store",
   fhirStoreEnableGCSBasedUpload |-> FALSE, fhirStoreGCSBasedUploadBucket |-> "",
   since |-> "", sinceFile |-> "", noFailOnUploadErrors |-> FALSE,
   pendingJobURL |-> ""]

\* Every combination of the fields the pre-flight checks of lines 109-126 and
\* of getTransactionTimeStore read.
PreflightConfigs ==
  {[BaseConfig EXCEPT !.clientID = id, !.clientSecret = sec,
                      !.enableFHIRStore = en, !.rectify = re,
                      !.fhirStoreGCPProject = ids[1], !.fhirStoreGCPLocation = ids[2],
                      !.fhirStoreGCPDatasetID = ids[3], !.fhirStoreID = ids[4],
                      !.fhirStoreEnableGCSBasedUpload = gcs,
                      !.fhirStoreGCSBasedUploadBucket = bucket,
                      !.since = s, !.sinceFile = sf] :
     id \in {"", "id"}, sec \in {"", "secret"}, en \in BOOLEAN, re \in BOOLEAN,
     ids \in [1..4 -> {"", "x"}], gcs \in BOOLEAN, bucket \in {"", "bucket"},
     s \in {""} \cup SinceTexts, sf \in {"", LocalSinceFile, GCSSinceFile}}

\* Every combination of the fields read after the pre-flight checks, with the
\* FHIR store flags the checks demand.
RunConfigs ==
  {[BaseConfig EXCEPT !.outputPrefix = out, !.enableFHIRStore = en,
                      !.noFailOnUploadErrors = nf, !.pendingJobURL = pj,
                      !.since = s, !.sinceFile = sf] :
     out \in {"", "out/"}, en \in BOOLEAN, nf \in BOOLEAN, pj \in {"", PendingJob},
     s \in {""} \cup SinceTexts, sf \in {"", LocalSinceFile, GCSSinceFile}}

\* The contents a since file can have when a run starts: a log of lines.
SinceFiles == {<<>>} \cup {<<l>> : l \in SinceTexts}

\* jobStatus.ResultURLs: resource type -> ordered list of result URLs.
URLsOf(rt, n) == [i \in 1..n |-> <<rt, i>>]
ResultURLMaps ==
  UNION {{[rt \in D |-> URLsOf(rt, n[rt])] : n \in [D -> 1..MaxURLs]} :
         D \in SUBSET ResourceTypes}
AllURLs(m) == UNION {{m[rt][i] : i \in 1..Len(m[rt])} : rt \in DOMAIN m}

\* The zero bulkfhir.JobStatus.
NoURLs == [rt \in {} |-> <<>>]
ZeroStatus == [IsComplete |-> FALSE, TransactionTime |-> "", ResultURLs |-> NoURLs]
\* The monitorResult pointer before the first event: nil.
NilResult == [isNil |-> TRUE, Error |-> FALSE, Status |-> ZeroStatus]

\* Errors: the return statement that produced it, the URL and the wrapped cause.
NoURL == <<>>
NoCause == [kind |-> "", attempt |-> 0]
NoError == [kind |-> "", url |-> NoURL, cause |-> NoCause]
Error(k, u, c) == [kind |-> k, url |-> u, cause |-> c]
Because(k) == [kind |-> k, attempt |-> 0]

VARIABLES
  cfg,             \* mainWrapperConfig of the current run
  sinceFileLines,  \* the lines of the since file named by cfg.sinceFile
  run,             \* number of the current run
  prev,            \* how the previous run ended, what it loaded, whether it called Store
  pc,              \* position in mainWrapper
  retErr,          \* the error mainWrapper returned
  cl,              \* the bulkfhir client: "none", "open", "closed"
  closed,          \* result streams closed by the deferred r.Close() calls
  called,          \* collaborator operations invoked in this run
  sinceStore,      \* kind of TransactionTimeStore built: "memory", "local", "gcs"
  memValue,        \* value held by the in-memory store
  since,           \* the value sinceStore.Load returned, Nil before it did
  jobURL, monitorResult, nPolls, jobStatus,
  pollErrors,      \* events of the monitor that carried a polling error (line 166)
  transactionTime, \* the bulkfhir.TransactionTime box
  nSet,            \* calls of transactionTime.Set
  nStartExport, startSince,
  sinks,           \* the sinks appended so far, in order
  pipeline,        \* TRUE once processing.NewPipeline returned a pipeline
  nFinalize, finalizeErr, uploadErrors,
  todo,            \* resource types the range over ResultURLs has not yet visited
  resourceType, urlIdx,
  getErr, numRetries, attempts, auths,
  streams,         \* the streams getDataOrExit returned, in order
  scanned,         \* URLs whose stream was scanned to its end
  lines, token,
  nStore, stored

envVars == <<cfg, sinceFileLines, run, prev>>
ctlVars == <<pc, retErr, cl, closed>>
storeVars == <<sinceStore, memValue, since>>
jobVars == <<jobURL, monitorResult, nPolls, pollErrors, jobStatus, transactionTime,
             nSet, nStartExport, startSince>>
pipeVars == <<sinks, pipeline, nFinalize, finalizeErr, uploadErrors>>
rangeVars == <<todo, resourceType, urlIdx>>
fetchVars == <<getErr, numRetries, attempts, auths>>
scanVars == <<streams, scanned, lines, token>>
ckVars == <<nStore, stored>>
vars == <<envVars, ctlVars, storeVars, jobVars, pipeVars, rangeVars, fetchVars,
          scanVars, ckVars, called>>

\* The state of a run about to enter mainWrapper.
RunStart ==
  /\ pc = "Configuring" /\ retErr = NoError /\ cl = "none" /\ closed = {}
  /\ called = {}
  /\ sinceStore = Nil /\ memValue = "" /\ since = Nil
  /\ jobURL = "" /\ monitorResult = NilResult /\ nPolls = 0 /\ jobStatus = ZeroStatus
  /\ pollErrors = 0
  /\ transactionTime = [isSet |-> FALSE, value |-> ""] /\ nSet = 0
  /\ nStartExport = 0 /\ startSince = Nil
  /\ sinks = <<>> /\ pipeline = FALSE /\ nFinalize = 0
  /\ finalizeErr = Nil /\ uploadErrors = FALSE
  /\ todo = {} /\ resourceType = Nil /\ urlIdx = 0
  /\ getErr = NoCause /\ numRetries = 0 /\ attempts = 0 /\ auths = 0
  /\ streams = <<>> /\ scanned = {} /\ lines = 0 /\ token = -1
  /\ nStore = 0 /\ stored = Nil

\* The same state, as the next state of a step.
EnterRun ==
  /\ pc' = "Configuring" /\ retErr' = NoError /\ cl' = "none" /\ closed' = {}
  /\ called' = {}
  /\ sinceStore' = Nil /\ memValue' = "" /\ since' = Nil
  /\ jobURL' = "" /\ monitorResult' = NilResult /\ nPolls' = 0 /\ jobStatus' = ZeroStatus
  /\ pollErrors' = 0
  /\ transactionTime' = [isSet |-> FALSE, value |-> ""] /\ nSet' = 0
  /\ nStartExport' = 0 /\ startSince' = Nil
  /\ sinks' = <<>> /\ pipeline' = FALSE /\ nFinalize' = 0
  /\ finalizeErr' = Nil /\ uploadErrors' = FALSE
  /\ todo' = {} /\ resourceType' = Nil /\ urlIdx' = 0
  /\ getErr' = NoCause /\ numRetries' = 0 /\ attempts' = 0 /\ auths' = 0
  /\ streams' = <<>> /\ scanned' = {} /\ lines' = 0 /\ token' = -1
  /\ nStore' = 0 /\ stored' = Nil

InitWith(configs) ==
  /\ cfg \in configs
  /\ sinceFileLines \in (IF cfg.sinceFile = "" THEN {<<>>} ELSE SinceFiles)
  /\ run = 1
  /\ prev = [end |-> Nil, since |-> Nil, storeCalled |-> FALSE]
  /\ RunStart

Init == InitWith(RunConfigs)
InitConfiguring == InitWith(PreflightConfigs)

\* A return statement of mainWrapper and the deferred calls it runs: cl.Close()
\* when the client was built, r.Close() for every stream fetched.
Return(e) ==
  /\ pc' = IF e = NoError THEN "Done" ELSE "Failed"
  /\ retErr' = e
  /\ cl' = IF cl = "open" THEN "closed" ELSE cl
  /\ closed' = {streams[i] : i \in 1..Len(streams)}

Goto(l) == pc' = l /\ UNCHANGED <<retErr, cl, closed>>

\* ------------------------------------------------------------- Configuring
\* ConfigViolation with the credentials test written with && for ||.
ConfigViolationBothEmpty(c) ==
  IF c.clientID = "" /\ c.clientSecret = "" THEN "credentials"
  ELSE IF c.enableFHIRStore /\ (\/ c.fhirStoreGCPProject = ""
                                \/ c.fhirStoreGCPLocation = ""
                                \/ c.fhirStoreGCPDatasetID = ""
                                \/ c.fhirStoreID = "") THEN "fhirStoreFlags"
  ELSE IF c.enableFHIRStore /\ ~c.rectify THEN "mustRectify"
  ELSE IF c.fhirStoreEnableGCSBasedUpload /\ c.fhirStoreGCSBasedUploadBucket = ""
    THEN "mustSpecifyGCSBucket"
  ELSE ""

\* The pre-flight checks of lines 109-126: the first that fails, or "".
ConfigViolation(c) ==
  IF c.clientID = "" \/ c.clientSecret = "" THEN "credentials"
  ELSE IF c.enableFHIRStore /\ (\/ c.fhirStoreGCPProject = ""
                                \/ c.fhirStoreGCPLocation = ""
                                \/ c.fhirStoreGCPDatasetID = ""
                                \/ c.fhirStoreID = "") THEN "fhirStoreFlags"
  ELSE IF c.enableFHIRStore /\ ~c.rectify THEN "mustRectify"
  ELSE IF c.fhirStoreEnableGCSBasedUpload /\ c.fhirStoreGCSBasedUploadBucket = ""
    THEN "mustSpecifyGCSBucket"
  ELSE ""

Configure ==
  /\ pc = "Configuring"
  /\ IF ConfigViolation(cfg) # ""
       THEN Return(Error("config", NoURL, Because(ConfigViolation(cfg))))
       ELSE Goto("MakeClient")
  /\ UNCHANGED <<envVars, storeVars, jobVars, pipeVars, rangeVars, fetchVars,
                 scanVars, ckVars, called>>

\* getBulkFHIRClient, lines 132-140.
GetBulkFHIRClient ==
  /\ pc = "MakeClient"
  /\ \E ok \in BOOLEAN :
       IF ok
         THEN /\ pc' = "MakeStore" /\ cl' = "open"
              /\ UNCHANGED <<retErr, closed>>
         ELSE Return(Error("client", NoURL, NoCause))
  /\ called' = called \cup {"NewClient"}
  /\ UNCHANGED <<envVars, storeVars, jobVars, pipeVars, rangeVars, fetchVars,
                 scanVars, ckVars>>

\* TransactionTimeStoreFor without the test of lines 306-308: with both since
\* and since_file set, since wins.
TransactionTimeStoreForNoExclusion(c, gcsOK) ==
  IF c.since # ""
    THEN IF ParseInstant(c.since) = Nil
           THEN [err |-> "invalidSince", kind |-> Nil]
           ELSE [err |-> "", kind |-> "memory"]
  ELSE IF HasGCSPrefix(c.sinceFile)
    THEN IF gcsOK THEN [err |-> "", kind |-> "gcs"]
                  ELSE [err |-> "gcsStore", kind |-> Nil]
  ELSE IF c.sinceFile # "" THEN [err |-> "", kind |-> "local"]
  ELSE [err |-> "", kind |-> "memory"]

\* getTransactionTimeStore, lines 305-329: the store kind built, or the error.
TransactionTimeStoreFor(c, gcsOK) ==
  IF c.since # "" /\ c.sinceFile # "" THEN [err |-> "config", kind |-> Nil]
  ELSE IF c.since # ""
    THEN IF ParseInstant(c.since) = Nil
           THEN [err |-> "invalidSince", kind |-> Nil]
           ELSE [err |-> "", kind |-> "memory"]
  ELSE IF HasGCSPrefix(c.sinceFile)
    THEN IF gcsOK THEN [err |-> "", kind |-> "gcs"]
                  ELSE [err |-> "gcsStore", kind |-> Nil]
  ELSE IF c.sinceFile # "" THEN [err |-> "", kind |-> "local"]
  ELSE [err |-> "", kind |-> "memory"]

GetTransactionTimeStore ==
  /\ pc = "MakeStore"
  /\ \E gcsOK \in BOOLEAN :
       LET res == TransactionTimeStoreFor(cfg, gcsOK) IN
       IF res.err # ""
         THEN /\ Return(Error(res.err, NoURL,
                           Because(IF res.err = "config" THEN "sinceAndSinceFile" ELSE "")))
              /\ UNCHANGED storeVars
         ELSE /\ Goto("Load")
              /\ sinceStore' = res.kind
              /\ memValue' = IF res.kind = "memory" THEN cfg.since ELSE memValue
              /\ UNCHANGED since
  /\ UNCHANGED <<envVars, jobVars, pipeVars, rangeVars, fetchVars, scanVars,
                 ckVars, called>>

\* TransactionTimeStore.Load: the in-memory store returns its value; a file store
\* parses the last line of the file, and an empty file loads as empty.
StoredText == IF sinceStore = "memory" THEN memValue
              ELSE IF sinceFileLines = <<>> THEN ""
              ELSE sinceFileLines[Len(sinceFileLines)]

\* Load with the error of line 147 dropped: whatever text the store holds is
\* taken for the watermark.
LoadUnchecked ==
  /\ pc = "Load"
  /\ called' = called \cup {"Load"}
  /\ Goto("JobResolving")
  /\ since' = StoredText
  /\ UNCHANGED <<envVars, sinceStore, memValue, jobVars, pipeVars, rangeVars,
                 fetchVars, scanVars, ckVars>>

\* Lines 146-151.
Load ==
  /\ pc = "Load"
  /\ called' = called \cup {"Load"}
  /\ \E readOK \in BOOLEAN :
       IF (sinceStore # "memory" /\ ~readOK)
            \/ (StoredText # "" /\ ParseInstant(StoredText) = Nil)
         THEN /\ Return(Error("invalidSince", NoURL, Because("load")))
              /\ UNCHANGED since
         ELSE /\ Goto("JobResolving")
              /\ since' = StoredText
  /\ UNCHANGED <<envVars, sinceStore, memValue, jobVars, pipeVars, rangeVars,
                 fetchVars, scanVars, ckVars>>

\* ------------------------------------------------------------ JobResolving
\* Lines 155-156 with a pending job URL supplied: no job is started.
AttachPendingJob ==
  /\ pc = "JobResolving"
  /\ cfg.pendingJobURL # ""
  /\ jobURL' = cfg.pendingJobURL
  /\ Goto("JobPolling")
  /\ UNCHANGED <<envVars, storeVars, monitorResult, nPolls, pollErrors, jobStatus,
                 transactionTime, nSet, nStartExport, startSince, pipeVars,
                 rangeVars, fetchVars, scanVars, ckVars, called>>

\* StartBulkDataExport without the test of line 156: a job is started whether
\* or not a pending job URL was supplied.
StartBulkDataExportAlways ==
  /\ pc = "JobResolving"
  /\ called' = called \cup {"StartExport"}
  /\ nStartExport' = nStartExport + 1
  /\ startSince' = since
  /\ \E ok \in BOOLEAN :
       IF ok
         THEN jobURL' = StartedJob /\ Goto("JobPolling")
         ELSE jobURL' = "" /\ Return(Error("startExport", NoURL, NoCause))
  /\ UNCHANGED <<envVars, storeVars, monitorResult, nPolls, pollErrors, jobStatus,
                 transactionTime, nSet, pipeVars, rangeVars, fetchVars,
                 scanVars, ckVars>>

\* Lines 156-162: cl.StartBulkDataExport(bcda.ResourceTypes, since, ExportGroupAll).
StartBulkDataExport ==
  /\ pc = "JobResolving"
  /\ cfg.pendingJobURL = ""
  /\ called' = called \cup {"StartExport"}
  /\ nStartExport' = nStartExport + 1
  /\ startSince' = since
  /\ \E ok \in BOOLEAN :
       IF ok
         THEN jobURL' = StartedJob /\ Goto("JobPolling")
         ELSE jobURL' = "" /\ Return(Error("startExport", NoURL, NoCause))
  /\ UNCHANGED <<envVars, storeVars, monitorResult, nPolls, pollErrors, jobStatus,
                 transactionTime, nSet, pipeVars, rangeVars, fetchVars,
                 scanVars, ckVars>>

\* -------------------------------------------------------------- JobPolling
\* The status snapshots one poll of the job can report.
CompleteStatuses ==
  {[IsComplete |-> TRUE, TransactionTime |-> t, ResultURLs |-> m] :
     t \in Instants, m \in ResultURLMaps}
\* An event is a status snapshot, or a polling error with the zero status.
MonitorResults ==
  {[isNil |-> FALSE, Error |-> FALSE, Status |-> st] :
     st \in {ZeroStatus} \cup CompleteStatuses}
    \cup {[isNil |-> FALSE, Error |-> TRUE, Status |-> ZeroStatus]}

\* MonitorEvent with transactionTime.Set moved into the loop body: the box is
\* written at every event.
MonitorEventSettingBox ==
  /\ pc = "JobPolling"
  /\ nPolls < MaxPolls
  /\ ~monitorResult.Status.IsComplete
  /\ \E ev \in MonitorResults :
       /\ monitorResult' = ev
       /\ pollErrors' = IF ev.Error THEN pollErrors + 1 ELSE pollErrors
       /\ transactionTime' = [isSet |-> TRUE, value |-> ev.Status.TransactionTime]
  /\ nSet' = nSet + 1
  /\ nPolls' = nPolls + 1
  /\ called' = called \cup {"GetJobStatus", "Set"}
  /\ UNCHANGED <<envVars, ctlVars, storeVars, jobURL, jobStatus,
                 nStartExport, startSince, pipeVars, rangeVars, fetchVars,
                 scanVars, ckVars>>

\* MonitorEvent returning the error of an event (a return after the log of line
\* 167): the first polling error ends the run.
MonitorEventStoppingOnError ==
  /\ pc = "JobPolling"
  /\ nPolls < MaxPolls
  /\ ~monitorResult.Status.IsComplete
  /\ \E ev \in MonitorResults :
       /\ monitorResult' = ev
       /\ pollErrors' = IF ev.Error THEN pollErrors + 1 ELSE pollErrors
       /\ IF ev.Error THEN Return(Error("poll", NoURL, NoCause))
                       ELSE UNCHANGED ctlVars
  /\ nPolls' = nPolls + 1
  /\ called' = called \cup {"GetJobStatus"}
  /\ UNCHANGED <<envVars, storeVars, jobURL, jobStatus, transactionTime,
                 nSet, nStartExport, startSince, pipeVars, rangeVars, fetchVars,
                 scanVars, ckVars>>

\* One iteration of the range over cl.MonitorJobStatus, lines 165-176: the
\* monitor polls the job and yields the next event; the body only logs.  The
\* monitor yields nothing more once a status reported the job complete.
MonitorEvent ==
  /\ pc = "JobPolling"
  /\ nPolls < MaxPolls
  /\ ~monitorResult.Status.IsComplete
  /\ \E ev \in MonitorResults :
       /\ monitorResult' = ev
       /\ pollErrors' = IF ev.Error THEN pollErrors + 1 ELSE pollErrors
  /\ nPolls' = nPolls + 1
  /\ called' = called \cup {"GetJobStatus"}
  /\ UNCHANGED <<envVars, ctlVars, storeVars, jobURL, jobStatus, transactionTime,
                 nSet, nStartExport, startSince, pipeVars, rangeVars, fetchVars,
                 scanVars, ckVars>>

\* JobPollingDone without the test of line 179: an incomplete job is taken
\* for a finished one.
JobPollingDoneUnchecked ==
  /\ pc = "JobPolling"
  /\ ~monitorResult.isNil
  /\ jobStatus' = monitorResult.Status
  /\ nPolls' = 0
  /\ pollErrors' = 0
  /\ transactionTime' = [isSet |-> TRUE,
                         value |-> monitorResult.Status.TransactionTime]
  /\ nSet' = nSet + 1
  /\ called' = called \cup {"Set"}
  /\ Goto("BuildPipeline")
  /\ UNCHANGED <<envVars, storeVars, jobURL, monitorResult, nStartExport,
                 startSince, pipeVars, rangeVars, fetchVars, scanVars, ckVars>>

\* The monitor's sequence ends (job complete, or timeout) after at least one
\* event, and the monitor with its poll count is gone; lines 178-186 then
\* read the last event.
JobPollingDone ==
  /\ pc = "JobPolling"
  /\ ~monitorResult.isNil
  /\ jobStatus' = monitorResult.Status
  /\ nPolls' = 0
  /\ pollErrors' = 0
  /\ IF ~monitorResult.Status.IsComplete
       THEN /\ Return(Error("timeout", NoURL, NoCause))
            /\ UNCHANGED <<transactionTime, nSet, called>>
       ELSE /\ transactionTime' = [isSet |-> TRUE,
                                   value |-> monitorResult.Status.TransactionTime]
            /\ nSet' = nSet + 1
            /\ called' = called \cup {"Set"}
            /\ Goto("BuildPipeline")
  /\ UNCHANGED <<envVars, storeVars, jobURL, monitorResult, nStartExport,
                 startSince, pipeVars, rangeVars, fetchVars, scanVars, ckVars>>

\* ----------------------------------------------------------- pipeline build
\* SinksFor with the ndjson sink appended whether or not an output prefix is set.
SinksForAlwaysNDJSON(c) ==
  <<"ndjson">> \o (IF c.enableFHIRStore THEN <<"fhirStore">> ELSE <<>>)

\* The sinks lines 193-229 append for a configuration, in order.
SinksFor(c) ==
  (IF c.outputPrefix # "" THEN <<"ndjson">> ELSE <<>>)
    \o (IF c.enableFHIRStore THEN <<"fhirStore">> ELSE <<>>)

\* processing.NewPipeline(processors, sinks) fails on an empty sink list.
NewPipelineFails(sinkList) == sinkList = <<>>

\* Lines 188-234: the constructors of the configured sinks succeed up to the
\* first that fails; with all of them built, NewPipeline is called.
BuildPipeline ==
  /\ pc = "BuildPipeline"
  /\ \E built \in 0..Len(SinksFor(cfg)) :
       /\ sinks' = SubSeq(SinksFor(cfg), 1, built)
       /\ IF built < Len(SinksFor(cfg))
            THEN /\ Return(Error("makeSink", NoURL, Because(SinksFor(cfg)[built + 1])))
                 /\ UNCHANGED <<pipeline, rangeVars>>
            ELSE IF NewPipelineFails(SinksFor(cfg))
              THEN /\ Return(Error("makePipeline", NoURL, NoCause))
                   /\ UNCHANGED <<pipeline, rangeVars>>
              ELSE /\ pipeline' = TRUE
                   /\ todo' = DOMAIN jobStatus.ResultURLs
                   /\ UNCHANGED <<resourceType, urlIdx>>
                   /\ Goto("RangeTypes")
  /\ UNCHANGED <<envVars, storeVars, jobVars, nFinalize, finalizeErr, uploadErrors,
                 fetchVars, scanVars, ckVars, called>>

\* ------------------------------------------------------------- Downloading
\* The URL the loops of lines 236-237 are at.
CurrentURLs == jobStatus.ResultURLs[resourceType]
CurrentURL == CurrentURLs[urlIdx]

\* The outer range of line 236 over the map jobStatus.ResultURLs: Go visits the
\* keys of a map in an unspecified order, so any unvisited key may come next.
NextResourceTypes(remaining) == remaining

\* RangeResourceTypes leaving the loop after any iteration (a break for a
\* continue): resource types may be left unvisited.
RangeResourceTypesLeavingEarly ==
  /\ pc = "RangeTypes"
  /\ \/ /\ Goto("Finalizing")
        /\ UNCHANGED rangeVars
     \/ \E rt \in todo :
          /\ resourceType' = rt
          /\ todo' = todo \ {rt}
          /\ urlIdx' = 1
          /\ Goto("RangeURLs")
  /\ UNCHANGED <<envVars, storeVars, jobVars, pipeVars, fetchVars, scanVars,
                 ckVars, called>>

RangeResourceTypes ==
  /\ pc = "RangeTypes"
  /\ IF todo = {}
       THEN /\ Goto("Finalizing")
            /\ UNCHANGED rangeVars
       ELSE \E rt \in NextResourceTypes(todo) :
              /\ resourceType' = rt
              /\ todo' = todo \ {rt}
              /\ urlIdx' = 1
              /\ Goto("RangeURLs")
  /\ UNCHANGED <<envVars, storeVars, jobVars, pipeVars, fetchVars, scanVars,
                 ckVars, called>>

\* The inner range of line 237 over the URL list, in list order.
RangeURLs ==
  /\ pc = "RangeURLs"
  /\ IF urlIdx > Len(CurrentURLs)
       THEN Goto("RangeTypes")
       ELSE Goto("GetData")
  /\ UNCHANGED <<envVars, storeVars, jobVars, pipeVars, rangeVars, fetchVars,
                 scanVars, ckVars, called>>

\* ----------------------------------------------------------- getDataOrExit
\* What one cl.GetData(url) can return: a stream, or an error of a class.
GetDataOutcomes == {"ok", "unauthorized", "retryable", "fatal"}
GetDataError(outcome, n) ==
  IF outcome = "ok" THEN NoCause ELSE [kind |-> outcome, attempt |-> n]

\* IsRetryable testing err != nil only: every failure is retried.
IsRetryableAnyError(e) == e.kind # ""

\* errors.Is(err, ErrorUnauthorized) || errors.Is(err, ErrorRetryableHTTPStatus)
IsRetryable(e) == e.kind \in {"unauthorized", "retryable"}

\* ShouldRetry with <= for <: one retry too many.
ShouldRetryOffByOne(e, n) == IsRetryable(e) /\ n <= MaxRetries

\* The condition of the retry loop, line 273.
ShouldRetry(e, n) == IsRetryable(e) /\ n < MaxRetries

\* Lines 269-270: the first download attempt.
GetData ==
  /\ pc = "GetData"
  /\ \E outcome \in GetDataOutcomes : getErr' = GetDataError(outcome, 1)
  /\ numRetries' = 0
  /\ attempts' = 1
  /\ auths' = 0
  /\ called' = called \cup {"GetData"}
  /\ Goto("RetryLoop")
  /\ UNCHANGED <<envVars, storeVars, jobVars, pipeVars, rangeVars, scanVars, ckVars>>

\* Authenticate with the return of line 277 missing: the error is kept and the
\* download is tried again.
AuthenticateKeepingOn ==
  /\ pc = "RetryLoop"
  /\ ShouldRetry(getErr, numRetries)
  /\ auths' = auths + 1
  /\ called' = called \cup {"Authenticate"}
  /\ \E ok \in BOOLEAN :
       /\ retErr' = IF ok THEN retErr ELSE Error("authenticate", NoURL, NoCause)
       /\ pc' = "RetryGetData"
       /\ UNCHANGED <<cl, closed>>
  /\ UNCHANGED <<envVars, storeVars, jobVars, pipeVars, rangeVars, getErr,
                 numRetries, attempts, scanVars, ckVars>>

\* Lines 274-278: the loop condition holds; sleep, then cl.Authenticate().
Authenticate ==
  /\ pc = "RetryLoop"
  /\ ShouldRetry(getErr, numRetries)
  /\ auths' = auths + 1
  /\ called' = called \cup {"Authenticate"}
  /\ \E ok \in BOOLEAN :
       IF ok THEN Goto("RetryGetData")
             ELSE Return(Error("authenticate", NoURL, NoCause))
  /\ UNCHANGED <<envVars, storeVars, jobVars, pipeVars, rangeVars, getErr,
                 numRetries, attempts, scanVars, ckVars>>

\* RetryGetData with := for = at line 279: the result of the retry is assigned to
\* variables of the loop body, and err keeps the error of the first attempt.
RetryGetDataShadowed ==
  /\ pc = "RetryGetData"
  /\ attempts' = attempts + 1
  /\ numRetries' = numRetries + 1
  /\ called' = called \cup {"GetData"}
  /\ Goto("RetryLoop")
  /\ UNCHANGED <<envVars, storeVars, jobVars, pipeVars, rangeVars, getErr, auths,
                 scanVars, ckVars>>

\* Lines 279-280: the download is tried again.
RetryGetData ==
  /\ pc = "RetryGetData"
  /\ \E outcome \in GetDataOutcomes : getErr' = GetDataError(outcome, attempts + 1)
  /\ attempts' = attempts + 1
  /\ numRetries' = numRetries + 1
  /\ called' = called \cup {"GetData"}
  /\ Goto("RetryLoop")
  /\ UNCHANGED <<envVars, storeVars, jobVars, pipeVars, rangeVars, auths,
                 scanVars, ckVars>>

\* Lines 283-287 and 239-244: the loop is left; getDataOrExit returns the stream
\* or the wrapped error, and mainWrapper returns that error or starts scanning
\* the stream (the locals of getDataOrExit are gone once it has returned).
GetDataReturn ==
  /\ pc = "RetryLoop"
  /\ ~ShouldRetry(getErr, numRetries)
  /\ IF getErr # NoCause
       THEN /\ Return(Error("getData", CurrentURL, getErr))
            /\ UNCHANGED <<scanVars, fetchVars>>
       ELSE /\ streams' = Append(streams, CurrentURL)
            /\ lines' = 0
            /\ UNCHANGED <<scanned, token>>
            /\ getErr' = NoCause /\ numRetries' = 0 /\ attempts' = 0 /\ auths' = 0
            /\ Goto("Scan")
  /\ UNCHANGED <<envVars, storeVars, jobVars, pipeVars, rangeVars, ckVars, called>>

\* ------------------------------------------------------------------ scanning
\* Lengths, in bytes, of the newline-terminated records a stream may hold.
RecordLens == {1, maxTokenSize - 1, maxTokenSize, maxTokenSize + 1}
\* What the stream delivers next: a record, its end, or a read error.
StreamInputs ==
  {[kind |-> "line", len |-> n] : n \in RecordLens}
    \cup {[kind |-> "eof", len |-> 0], [kind |-> "readError", len |-> 0]}

\* TokenTooLong for a scanner whose buffer has no upper limit.
TokenTooLongUnbounded(len) == FALSE

\* bufio.Scanner with Buffer(buf, maxTokenSize): a record and its newline must
\* fit in a buffer that grows to maxTokenSize bytes at most.
TokenTooLong(len) == len + 1 > maxTokenSize

\* s.Scan() and s.Err() for the next input of the stream.
ScanResult(input) ==
  IF input.kind = "line"
    THEN IF TokenTooLong(input.len) THEN [ok |-> FALSE, err |-> "ErrTooLong"]
                                    ELSE [ok |-> TRUE, err |-> ""]
  ELSE IF input.kind = "eof" THEN [ok |-> FALSE, err |-> ""]
  ELSE [ok |-> FALSE, err |-> "readError"]

\* Scan without the s.Err() test of lines 250-252: a stream that stopped on an
\* error is taken for one that ended.
ScanIgnoringErr ==
  /\ pc = "Scan"
  /\ \E input \in StreamInputs :
       LET res == ScanResult(input) IN
       /\ res.ok => lines < MaxLines
       /\ IF res.ok
            THEN /\ token' = input.len
                 /\ lines' = lines + 1
                 /\ UNCHANGED <<streams, scanned, urlIdx>>
                 /\ Goto("Process")
            ELSE /\ scanned' = IF res.err = "" THEN scanned \cup {CurrentURL}
                                               ELSE scanned
                 /\ urlIdx' = urlIdx + 1
                 /\ UNCHANGED <<streams, lines, token>>
                 /\ Goto("RangeURLs")
  /\ UNCHANGED <<envVars, storeVars, jobVars, pipeVars, todo, resourceType,
                 fetchVars, ckVars, called>>

\* Scan with r.Close() called at the end of the loop body instead of deferred:
\* a stream scanned to its end is closed before the next URL is fetched.
ScanClosingAtEnd ==
  /\ pc = "Scan"
  /\ \E input \in StreamInputs :
       LET res == ScanResult(input) IN
       /\ res.ok => lines < MaxLines
       /\ IF res.ok
            THEN /\ token' = input.len
                 /\ lines' = lines + 1
                 /\ UNCHANGED <<streams, scanned, urlIdx>>
                 /\ Goto("Process")
            ELSE IF res.err # ""
              THEN /\ Return(Error("scan", NoURL, Because(res.err)))
                   /\ UNCHANGED <<scanVars, urlIdx>>
              ELSE /\ scanned' = scanned \cup {CurrentURL}
                   /\ urlIdx' = urlIdx + 1
                   /\ UNCHANGED <<streams, lines, token>>
                   /\ pc' = "RangeURLs"
                   /\ closed' = closed \cup {CurrentURL}
                   /\ UNCHANGED <<retErr, cl>>
  /\ UNCHANGED <<envVars, storeVars, jobVars, pipeVars, todo, resourceType,
                 fetchVars, ckVars, called>>

\* Lines 245 and 250-253: s.Scan() yields a token, or stops at the end of the
\* stream or at an error.
Scan ==
  /\ pc = "Scan"
  /\ \E input \in StreamInputs :
       LET res == ScanResult(input) IN
       /\ res.ok => lines < MaxLines
       /\ IF res.ok
            THEN /\ token' = input.len
                 /\ lines' = lines + 1
                 /\ UNCHANGED <<streams, scanned, urlIdx>>
                 /\ Goto("Process")
            ELSE IF res.err # ""
              THEN /\ Return(Error("scan", NoURL, Because(res.err)))
                   /\ UNCHANGED <<scanVars, urlIdx>>
              ELSE /\ scanned' = scanned \cup {CurrentURL}
                   /\ urlIdx' = urlIdx + 1
                   /\ UNCHANGED <<streams, lines, token>>
                   /\ Goto("RangeURLs")
  /\ UNCHANGED <<envVars, storeVars, jobVars, pipeVars, todo, resourceType,
                 fetchVars, ckVars, called>>

\* Process with the return of line 247 missing: the error is kept and the scan
\* loop goes on to the next record.
ProcessKeepingOn ==
  /\ pc = "Process"
  /\ token # -1
  /\ token' = -1
  /\ called' = called \cup {"Process"}
  /\ \E ok \in BOOLEAN :
       /\ retErr' = IF ok THEN retErr ELSE Error("process", CurrentURL, NoCause)
       /\ pc' = "Scan"
       /\ UNCHANGED <<cl, closed>>
  /\ UNCHANGED <<envVars, storeVars, jobVars, pipeVars, rangeVars, fetchVars,
                 streams, scanned, lines, ckVars>>

\* Line 246: pipeline.Process(ctx, resourceType, url, s.Bytes()).
Process ==
  /\ pc = "Process"
  /\ token # -1
  /\ token' = -1
  /\ called' = called \cup {"Process"}
  /\ \E ok \in BOOLEAN :
       IF ok THEN Goto("Scan")
             ELSE Return(Error("process", CurrentURL, NoCause))
  /\ UNCHANGED <<envVars, storeVars, jobVars, pipeVars, rangeVars, fetchVars,
                 streams, scanned, lines, ckVars>>

\* --------------------------------------------------------------- Finalizing
\* What the Finalize of one sink can report.
SinkOutcomes(sink) ==
  IF sink = "fhirStore" THEN {"ok", "uploadError", "error"} ELSE {"ok", "error"}

\* A sink's Finalize fails the pipeline's unless it is an upload error of a
\* sink built with NoFailOnUploadErrors.
SinkFails(outcome, noFail) ==
  outcome = "error" \/ (outcome = "uploadError" /\ ~noFail)

\* Pipeline.Finalize: every sink is finalized; it fails if any sink failed.
PipelineFinalizeFails(outcomes, noFail) ==
  \E i \in DOMAIN outcomes : SinkFails(outcomes[i], noFail)

\* Finalize with the error of line 256 dropped: the run goes on to store the
\* checkpoint whatever Pipeline.Finalize returned.
FinalizeIgnoringError ==
  /\ pc = "Finalizing"
  /\ nFinalize' = nFinalize + 1
  /\ called' = called \cup {"Finalize"}
  /\ \E outcomes \in [1..Len(sinks) -> {"ok", "uploadError", "error"}] :
       /\ \A i \in 1..Len(sinks) : outcomes[i] \in SinkOutcomes(sinks[i])
       /\ uploadErrors' = (\E i \in 1..Len(sinks) : outcomes[i] = "uploadError")
       /\ finalizeErr' = IF PipelineFinalizeFails(outcomes, cfg.noFailOnUploadErrors)
                           THEN "failed" ELSE ""
       /\ Goto("CheckpointCommitting")
  /\ UNCHANGED <<envVars, storeVars, jobVars, sinks, pipeline,
                 rangeVars, fetchVars, scanVars, ckVars>>

\* Lines 256-258.
Finalize ==
  /\ pc = "Finalizing"
  /\ nFinalize' = nFinalize + 1
  /\ called' = called \cup {"Finalize"}
  /\ \E outcomes \in [1..Len(sinks) -> {"ok", "uploadError", "error"}] :
       /\ \A i \in 1..Len(sinks) : outcomes[i] \in SinkOutcomes(sinks[i])
       /\ uploadErrors' = (\E i \in 1..Len(sinks) : outcomes[i] = "uploadError")
       /\ IF PipelineFinalizeFails(outcomes, cfg.noFailOnUploadErrors)
            THEN /\ finalizeErr' = "failed"
                 /\ Return(Error("finalize", NoURL, NoCause))
            ELSE /\ finalizeErr' = ""
                 /\ Goto("CheckpointCommitting")
  /\ UNCHANGED <<envVars, storeVars, jobVars, sinks, pipeline,
                 rangeVars, fetchVars, scanVars, ckVars>>

\* ----------------------------------------------------- CheckpointCommitting
\* TransactionTimeStore.Store(t): a file store appends t to the since file, the
\* in-memory store replaces its value; a failed Store changes nothing.
StoreWrites(kind, t, ok) ==
  /\ sinceFileLines' = IF ok /\ kind # "memory" THEN Append(sinceFileLines, t)
                       ELSE sinceFileLines
  /\ memValue' = IF ok /\ kind = "memory" THEN t ELSE memValue

\* StoreArgument with the loaded watermark for the job's transaction time.
StoreArgumentStale == since

\* The timestamp line 260 hands to Store.
StoreArgument == jobStatus.TransactionTime

\* Lines 260-265.
Store ==
  /\ pc = "CheckpointCommitting"
  /\ nStore' = nStore + 1
  /\ stored' = StoreArgument
  /\ called' = called \cup {"Store"}
  /\ \E ok \in BOOLEAN :
       /\ StoreWrites(sinceStore, StoreArgument, ok)
       /\ IF ok THEN Return(NoError)
                ELSE Return(Error("store", NoURL, NoCause))
  /\ UNCHANGED <<cfg, run, prev, sinceStore, since, jobVars, pipeVars, rangeVars,
                 fetchVars, scanVars>>

\* ------------------------------------------------------------ specification
Terminated == pc \in {"Done", "Failed"}

Next ==
  \/ Configure
  \/ GetBulkFHIRClient
  \/ GetTransactionTimeStore
  \/ Load
  \/ AttachPendingJob
  \/ StartBulkDataExport
  \/ MonitorEvent
  \/ JobPollingDone
  \/ BuildPipeline
  \/ RangeResourceTypes
  \/ RangeURLs
  \/ GetData
  \/ Authenticate
  \/ RetryGetData
  \/ GetDataReturn
  \/ Scan
  \/ Process
  \/ Finalize
  \/ Store

\* One run of mainWrapper, from every configuration that passes the pre-flight
\* checks of lines 109-126 and from any since file.
Spec == Init /\ [][Next]_vars

\* The Configuring phase of a run (lines 106-151), from every configuration.
NextConfiguring ==
  \/ Configure
  \/ GetBulkFHIRClient
  \/ GetTransactionTimeStore
  \/ Load

SpecConfiguring == InitConfiguring /\ [][NextConfiguring]_vars

\* ------------------------------------------------------- runs sharing a store
\* The configurations of a job that is run again and again on one since file.
SharedStoreConfigs ==
  {c \in RunConfigs : /\ c.sinceFile = LocalSinceFile /\ c.since = ""
                      /\ c.outputPrefix # "" /\ ~c.enableFHIRStore
                      /\ ~c.noFailOnUploadErrors}

InitRuns == InitWith(SharedStoreConfigs)

\* The program is started again with the same flags; only the since file
\* survives from the run before, which ended as `how`.
Restart(how) ==
  /\ run < MaxRuns
  /\ run' = run + 1
  /\ prev' = [end |-> how, since |-> since, storeCalled |-> nStore > 0]
  /\ UNCHANGED <<cfg, sinceFileLines>>
  /\ EnterRun

\* The process dies at any statement (nothing more of the run executes, not
\* even the deferred calls) and the program is started again.
Crash ==
  /\ pc \notin {"Done", "Failed"}
  /\ Restart("Crashed")

\* The next run after one that returned.
NewRun ==
  /\ pc \in {"Done", "Failed"}
  /\ Restart(pc)

NextRuns == Next \/ Crash \/ NewRun

SpecRuns == InitRuns /\ [][NextRuns]_vars

\* ==================================================================== claims
\* The operations that reach the export server.
RemoteCalls == {"StartExport", "GetJobStatus", "GetData", "Authenticate"}
StreamSet == {streams[i] : i \in 1..Len(streams)}
\* Every result URL of the job was fetched and scanned to its end, and every
\* record read was handed to Process.
AllSubmitted ==
  /\ jobStatus.IsComplete /\ pipeline /\ todo = {}
  /\ StreamSet = AllURLs(jobStatus.ResultURLs)
  /\ scanned = AllURLs(jobStatus.ResultURLs)
  /\ token = -1

\* C1: Store is invoked at most once per run, and only after Finalize returned
\* success with every result URL fetched, scanned to its end and every record
\* processed; a run that ended after a successful Finalize has invoked Store; a
\* run that ended on a Process error has invoked neither Finalize nor Store.
CheckpointOrdering ==
  /\ nStore <= 1
  /\ nStore = 1 => /\ nFinalize = 1 /\ finalizeErr = ""
                   /\ AllSubmitted
  /\ (Terminated /\ nFinalize = 1 /\ finalizeErr = "") => nStore = 1
  /\ (Terminated /\ nFinalize = 0) => nStore = 0
  /\ retErr.kind = "process" => nFinalize = 0 /\ nStore = 0

CheckpointOrderingWitness ==
  /\ pc = "Done" /\ nStore = 1 /\ "Process" \in called
  /\ Cardinality(scanned) >= 3

\* C2: over runs sharing one since file, with failures and crashes at any
\* step, the file changes only in the Store step of a run whose job completed
\* and whose Finalize succeeded, and only by appending that job's transaction
\* time; a run following one that loaded a watermark and never called Store
\* loads the same watermark and requests the same window.
WatermarkAdvancesOnlyOnSuccess ==
  /\ [][sinceFileLines' # sinceFileLines =>
          /\ pc = "CheckpointCommitting"
          /\ jobStatus.IsComplete /\ nFinalize = 1 /\ finalizeErr = ""
          /\ AllSubmitted
          /\ jobStatus.TransactionTime \in Instants
          /\ sinceFileLines' = Append(sinceFileLines, jobStatus.TransactionTime)]_vars
  /\ []((run > 1 /\ prev.since # Nil /\ ~prev.storeCalled /\ since # Nil) =>
          /\ since = prev.since
          /\ nStartExport = 1 => startSince = prev.since)

WatermarkWitness ==
  /\ run = 2 /\ prev.end = "Crashed" /\ ~prev.storeCalled
  /\ prev.since \in Instants
  /\ nStartExport = 1 /\ startSince = prev.since

\* C3: in getDataOrExit every download attempt but the first follows exactly one
\* Authenticate call; a fetch that succeeds after k failed attempts has made
\* k+1 attempts and k Authenticate calls, k <= 5, and returns at once; a fetch
\* that fails on a retryable error has made 6 attempts and 5 Authenticate
\* calls, and no fetch makes more.
FetchRetries ==
  /\ [](/\ attempts <= 6 /\ auths <= 5
        /\ pc = "RetryLoop" => attempts = auths + 1 /\ auths = numRetries
        /\ pc = "RetryGetData" => attempts = auths /\ auths = numRetries + 1
        /\ (retErr.kind = "getData" /\ IsRetryable(retErr.cause)) =>
             attempts = 6 /\ auths = 5 /\ retErr.cause.attempt = 6)
  /\ [][(pc = "RetryLoop" /\ getErr = NoCause) =>
          pc' = "Scan" /\ streams' = Append(streams, CurrentURL)]_vars

FetchRetriesWitness ==
  pc = "RetryLoop" /\ getErr = NoCause /\ attempts = 4 /\ auths = 3

\* C4: once the monitor's sequence has ended, a last event with isComplete
\* false means the run has failed with the timeout error and has made no
\* Download, Authenticate, Process, Finalize, TransactionTime Set or Store; a
\* last event with isComplete true means the run went on, past line 179, with
\* the box set to that event's transaction time.
TimeoutFetchesNothing ==
  (~monitorResult.isNil /\ pc # "JobPolling") =>
     IF ~monitorResult.Status.IsComplete
       THEN /\ pc = "Failed" /\ retErr.kind = "timeout"
            /\ called \cap {"GetData", "Authenticate", "Process", "Finalize",
                            "Set", "Store"} = {}
            /\ nSet = 0 /\ nFinalize = 0 /\ nStore = 0 /\ streams = <<>>
            /\ ~transactionTime.isSet /\ ~pipeline /\ sinks = <<>>
       ELSE /\ retErr.kind # "timeout"
            /\ jobStatus = monitorResult.Status
            /\ transactionTime =
                 [isSet |-> TRUE, value |-> monitorResult.Status.TransactionTime]

TimeoutWitness ==
  /\ pc = "Failed" /\ retErr.kind = "timeout"
  /\ monitorResult.Error /\ "GetJobStatus" \in called

\* C5: with an empty client ID or client secret the run never leaves
\* Configuring except to fail with the credentials error: no client is built,
\* no store is built or loaded and no collaborator is called.
MissingCredentialsFailFirst ==
  (cfg.clientID = "" \/ cfg.clientSecret = "") =>
     /\ pc \in {"Configuring", "Failed"}
     /\ pc = "Failed" => retErr = Error("config", NoURL, Because("credentials"))
     /\ cl = "none" /\ called = {} /\ sinceStore = Nil /\ since = Nil
     /\ jobURL = "" /\ nStartExport = 0

MissingCredentialsWitness ==
  /\ pc = "Failed" /\ cfg.clientID # "" /\ cfg.clientSecret = ""
  /\ cfg.sinceFile # ""

\* The configuration violations checked before any work starts.
StoreUploadViolation(c) ==
  c.enableFHIRStore /\ (\/ ~c.rectify
                        \/ c.fhirStoreGCPProject = "" \/ c.fhirStoreGCPLocation = ""
                        \/ c.fhirStoreGCPDatasetID = "" \/ c.fhirStoreID = "")
GCSUploadViolation(c) ==
  c.fhirStoreEnableGCSBasedUpload /\ c.fhirStoreGCSBasedUploadBucket = ""
CheckpointSourceViolation(c) == c.since # "" /\ c.sinceFile # ""
AnyViolation(c) ==
  StoreUploadViolation(c) \/ GCSUploadViolation(c) \/ CheckpointSourceViolation(c)

\* C6 as stated: when the configuration error for a violation is raised, the
\* export client has not been built and no collaborator has been called.
ConfigErrorBeforeClientBuilt ==
  (AnyViolation(cfg) /\ pc = "Failed" /\ retErr.kind = "config") =>
     cl = "none" /\ called = {}

\* C6, amended: with a configuration violation the run fails before any remote
\* call, before a job is started and before the checkpoint is loaded. A FHIR
\* store or GCS upload violation is raised as a configuration error before the
\* export client is built; the error for more than one checkpoint source is
\* raised by getTransactionTimeStore after the client was built (and the
\* deferred Close has closed it), unless building the client failed first.
ConfigErrorBeforeRemoteCall ==
  AnyViolation(cfg) =>
     /\ pc \in {"Configuring", "MakeClient", "MakeStore", "Failed"}
     /\ called \cap (RemoteCalls \cup {"Load", "Set", "Store"}) = {}
     /\ nStartExport = 0 /\ jobURL = "" /\ since = Nil /\ sinceStore = Nil
     /\ pc = "Failed" => retErr.kind \in {"config", "client"}
     /\ (StoreUploadViolation(cfg) \/ GCSUploadViolation(cfg)) =>
          /\ cl = "none" /\ called = {}
          /\ pc = "Failed" => retErr.kind = "config"
     /\ retErr.cause.kind = "sinceAndSinceFile" =>
          retErr.kind = "config" /\ cl = "closed" /\ called = {"NewClient"}
     /\ (pc = "Failed" /\ retErr.kind = "client") => cl = "none"

ConfigErrorWitness ==
  /\ pc = "Failed" /\ retErr.kind = "config"
  /\ retErr.cause.kind = "sinceAndSinceFile" /\ cl = "closed"
  /\ ~StoreUploadViolation(cfg) /\ ~GCSUploadViolation(cfg)

\* C7: the TransactionTime box is set at most once in a run, and exactly when
\* the job was observed complete, with the transaction time of the last
\* event; once set it never changes; sinks and the pipeline exist, and records
\* are processed, only with the box set; Store is handed the value in the box.
TransactionTimeSetOnce ==
  /\ [](/\ nSet <= 1
        /\ transactionTime.isSet <=> nSet = 1
        /\ nSet = 1 <=> (/\ ~monitorResult.isNil /\ pc # "JobPolling"
                         /\ monitorResult.Status.IsComplete)
        /\ nSet = 1 => /\ jobStatus.IsComplete
                       /\ transactionTime.value = monitorResult.Status.TransactionTime
                       /\ transactionTime.value = jobStatus.TransactionTime
                       /\ transactionTime.value \in Instants
        /\ (sinks # <<>> \/ pipeline \/ called \cap {"Process", "Finalize"} # {}) =>
             transactionTime.isSet
        /\ nStore = 1 => stored = transactionTime.value)
  /\ [][transactionTime.isSet => transactionTime' = transactionTime]_vars

TransactionTimeWitness ==
  /\ pc = "Done" /\ nStore = 1 /\ sinks = <<"ndjson", "fhirStore">>
  /\ "Process" \in called /\ stored = transactionTime.value

\* C8 as stated: every run that ended has invoked Finalize exactly once.
FinalizeExactlyOncePerRun == Terminated => nFinalize = 1

\* C8, amended: Finalize is invoked at most once per run, only after every record
\* of every result URL was submitted to Process, and exactly once in every
\* ended run in which they all were; after Finalize was invoked the run is past
\* the download loops, so no Process follows. A run that fails before that
\* point never invokes Finalize.
FinalizeOnceAfterAllRecords ==
  /\ nFinalize <= 1
  /\ nFinalize = 1 <=> "Finalize" \in called
  /\ nFinalize = 1 =>
       /\ AllSubmitted
       /\ pc \in {"CheckpointCommitting", "Done", "Failed"}
       /\ retErr.kind \in {"", "finalize", "store"}
  /\ (Terminated /\ AllSubmitted) => nFinalize = 1
  /\ (Terminated /\ ~AllSubmitted) => nFinalize = 0

FinalizeWitness ==
  /\ pc = "Done" /\ nFinalize = 1 /\ "Process" \in called
  /\ Cardinality(scanned) >= 2 /\ lines = MaxLines

\* C9 as stated: a failed Finalize ends the run in Failed with nothing stored,
\* unless no_fail_on_upload_errors is set, and then the run ends having
\* invoked Store.
FinalizeFailureToleratedByFlag ==
  (Terminated /\ finalizeErr = "failed") =>
     IF cfg.noFailOnUploadErrors THEN nStore = 1
     ELSE pc = "Failed" /\ nStore = 0

\* C9, amended: whenever Finalize reports a failure the run ends in Failed with
\* the finalize error and Store is not invoked, whatever
\* no_fail_on_upload_errors is. The flag decides what Finalize reports: an
\* upload error of the FHIR store sink fails Finalize without the flag, and
\* with it Finalize succeeds unless a sink failed otherwise, and the run goes on
\* to CheckpointCommitting and invokes Store.
FinalizeFailureFailsRun ==
  /\ finalizeErr = "failed" =>
       /\ pc = "Failed" /\ retErr.kind = "finalize"
       /\ nStore = 0 /\ "Store" \notin called
  /\ (uploadErrors /\ ~cfg.noFailOnUploadErrors) => finalizeErr = "failed"
  /\ (nFinalize = 1 /\ finalizeErr = "") =>
       /\ pc \in {"CheckpointCommitting", "Done", "Failed"}
       /\ uploadErrors => cfg.noFailOnUploadErrors
       /\ Terminated => nStore = 1

FinalizeFailureWitness ==
  /\ pc = "Done" /\ uploadErrors /\ cfg.noFailOnUploadErrors /\ nStore = 1

\* C10: no record longer than maxTokenSize is handed to Process; the run that
\* met one has failed with the scanner's error at that record, with its URL not
\* scanned to the end, no later URL fetched, Finalize not invoked and nothing
\* stored.
OversizeRecordAborts ==
  /\ token <= maxTokenSize
  /\ retErr.cause.kind = "ErrTooLong" =>
       /\ pc = "Failed" /\ retErr.kind = "scan"
       /\ streams[Len(streams)] = CurrentURL
       /\ CurrentURL \notin scanned
       /\ token = -1
       /\ nFinalize = 0 /\ "Finalize" \notin called
       /\ nStore = 0 /\ "Store" \notin called
       /\ memValue = cfg.since

OversizeRecordWitness ==
  /\ retErr.cause.kind = "ErrTooLong" /\ Len(streams) >= 2
  /\ "Process" \in called /\ todo # {}

\* The condition of line 128: the configuration names no destination.
NoOutput(c) == c.outputPrefix = "" /\ ~c.enableFHIRStore

\* C11 as stated: when building the pipeline fails on the empty sink list, no
\* remote call has been made.
EmptySinksFailBeforeRemoteCall ==
  (NoOutput(cfg) /\ retErr.kind = "makePipeline") => called \cap RemoteCalls = {}

\* C11, amended: a configuration with neither an output prefix nor FHIR store
\* upload passes Configuring; its run never builds a sink or a pipeline, makes
\* no Download, Authenticate, Process, Finalize or Store and never ends in Done.
\* The pipeline construction error is raised only after the job was observed
\* complete, so the status polls (and StartExport, when no pending job was
\* supplied) have been made by then; and a run whose job completed fails on
\* that error exactly when the configuration has no destination.
EmptySinksFailAfterPolling ==
  /\ NoOutput(cfg) =>
       /\ sinks = <<>> /\ ~pipeline
       /\ called \cap {"GetData", "Authenticate", "Process", "Finalize", "Store"} = {}
       /\ streams = <<>> /\ nFinalize = 0 /\ nStore = 0
       /\ pc \notin {"RangeTypes", "RangeURLs", "GetData", "RetryLoop", "RetryGetData",
                     "Scan", "Process", "Finalizing", "CheckpointCommitting", "Done"}
       /\ (Terminated /\ jobStatus.IsComplete) => retErr.kind = "makePipeline"
  /\ retErr.kind = "makePipeline" =>
       /\ NoOutput(cfg) /\ pc = "Failed"
       /\ jobStatus.IsComplete /\ transactionTime.isSet
       /\ "GetJobStatus" \in called
       /\ "StartExport" \in called <=> cfg.pendingJobURL = ""

EmptySinksWitness ==
  /\ pc = "Failed" /\ retErr.kind = "makePipeline"
  /\ "StartExport" \in called /\ "GetJobStatus" \in called

\* The text of the checkpoint source a run is configured with: the since flag,
\* or else the last line of the since file.
SourceText ==
  IF cfg.since # "" THEN cfg.since
  ELSE IF cfg.sinceFile # "" /\ sinceFileLines # <<>>
    THEN sinceFileLines[Len(sinceFileLines)]
  ELSE ""
BadSource == SourceText # "" /\ ParseInstant(SourceText) = Nil

\* C12: with a non-empty, unparsable text in the checkpoint source the run never
\* reaches JobResolving: no job is started or polled, nothing is downloaded or
\* stored, and once the store was created (or, for the since flag, once
\* getTransactionTimeStore was reached with since as the only source) the run
\* fails with the invalid since error and no other. An empty source loads as
\* the empty watermark, and the run goes on to JobResolving unless reading the
\* file failed; what was loaded is the text of the source as it was before
\* Store, empty or a valid timestamp.
InvalidSinceFailsBeforeJob ==
  /\ [](BadSource =>
          /\ pc \in {"Configuring", "MakeClient", "MakeStore", "Load", "Failed"}
          /\ called \cap (RemoteCalls \cup {"Process", "Finalize", "Set", "Store"}) = {}
          /\ nStartExport = 0 /\ jobURL = "" /\ since = Nil
          /\ streams = <<>> /\ nStore = 0
          /\ pc = "Failed" =>
               retErr.kind \in {"client", "config", "gcsStore", "invalidSince"}
          /\ (pc = "Failed" /\ sinceStore # Nil) =>
               retErr.kind = "invalidSince" /\ "Load" \in called
          /\ (pc = "Failed" /\ cl # "none" /\ cfg.since # "" /\ cfg.sinceFile = "") =>
               retErr.kind = "invalidSince" /\ sinceStore = Nil)
  /\ [](since # Nil => /\ since \in {""} \cup Instants
                       /\ nStore = 0 => since = SourceText)
  /\ [][(pc = "Load" /\ SourceText = "") =>
          \/ pc' = "JobResolving" /\ since' = ""
          \/ /\ sinceStore # "memory" /\ pc' = "Failed"
             /\ retErr'.kind = "invalidSince"]_vars

InvalidSinceWitness ==
  /\ pc = "Failed" /\ retErr.kind = "invalidSince" /\ "Load" \in called
  /\ sinceStore = "local" /\ BadSource

\* The errors a run returns from the download loops of lines 236-254.
DownloadErrors == {"getData", "authenticate", "process", "scan"}

\* C13: a run that met a fetch error, a Process error or a scan error in the
\* download loops is in Failed from that step on, with the URL at hand not
\* scanned to its end; the step that raised the error did not touch the
\* checkpoint, and after it no Download, Authenticate, Process, Finalize or
\* Store call is made and nothing changes but by the return itself.
DownloadErrorAborts ==
  /\ [](retErr.kind \in DownloadErrors =>
          /\ pc = "Failed"
          /\ jobStatus.IsComplete /\ pipeline
          /\ CurrentURL \notin scanned /\ ~AllSubmitted
          /\ Len(streams) <= Cardinality(scanned) + 1
          /\ nFinalize = 0 /\ "Finalize" \notin called
          /\ nStore = 0 /\ "Store" \notin called /\ stored = Nil
          /\ memValue = cfg.since)
  /\ [][retErr'.kind \in DownloadErrors =>
          sinceFileLines' = sinceFileLines /\ memValue' = memValue]_vars
  /\ [][retErr.kind \in DownloadErrors =>
          UNCHANGED <<called, streams, scanned, attempts, auths, lines,
                      nFinalize, nStore, sinceFileLines, memValue>>]_vars

DownloadErrorWitness ==
  /\ pc = "Failed" /\ retErr.kind = "process"
  /\ Len(streams) >= 2 /\ urlIdx < Len(CurrentURLs)

\* C14: when a download attempt of getDataOrExit, the first or a retry, has
\* failed with an error that is neither unauthorized nor a retryable HTTP
\* status, the next step is the return of that error: no sleep and Authenticate,
\* no further attempt. The fetch that failed so made one Authenticate call for
\* each attempt before the failing one, and none after it.
FatalFetchErrorFailsAtOnce ==
  /\ [][(pc = "RetryLoop" /\ getErr.kind \notin {"", "unauthorized", "retryable"}) =>
          /\ pc' = "Failed"
          /\ retErr' = Error("getData", CurrentURL, getErr)
          /\ UNCHANGED <<called, attempts, auths, numRetries, streams>>]_vars
  /\ []((retErr.kind = "getData"
         /\ retErr.cause.kind \notin {"unauthorized", "retryable"}) =>
          /\ pc = "Failed"
          /\ retErr.cause.kind = "fatal"
          /\ retErr.cause.attempt = attempts
          /\ attempts \in 1..(MaxRetries + 1)
          /\ auths = attempts - 1 /\ numRetries = attempts - 1)

FatalFetchErrorWitness ==
  /\ pc = "Failed" /\ retErr.kind = "getData" /\ retErr.cause.kind = "fatal"
  /\ retErr.cause.attempt = 3 /\ auths = 2

\* C15: a fetch that gives up on a retryable error (five retries made) returns
\* an error that wraps the error of its last download attempt, the sixth, and
\* the URL it was fetching.
ExhaustedFetchWrapsLastError ==
  /\ [][(/\ pc = "RetryLoop" /\ getErr.kind \in {"unauthorized", "retryable"}
         /\ numRetries = MaxRetries) =>
          /\ getErr.attempt = attempts
          /\ retErr' = Error("getData", jobStatus.ResultURLs[resourceType][urlIdx],
                             getErr)]_vars
  /\ []((retErr.kind = "getData"
         /\ retErr.cause.kind \in {"unauthorized", "retryable"}) =>
          /\ retErr.cause.attempt = attempts
          /\ attempts = MaxRetries + 1 /\ numRetries = MaxRetries
          /\ retErr.url = <<resourceType, urlIdx>>
          /\ retErr.url \notin StreamSet)

ExhaustedFetchWitness ==
  /\ pc = "Failed"
  /\ retErr = Error("getData", <<"Coverage", 2>>,
                    [kind |-> "unauthorized", attempt |-> MaxRetries + 1])
  /\ Len(streams) >= 1

\* C16: an event that carries a polling error leaves the run in JobPolling
\* with no error returned, and the loop stands ready for the monitor's next
\* event; the run leaves JobPolling only when the sequence has ended, and then
\* on the completion flag of the last event alone: complete, it goes on to build
\* the pipeline, and otherwise it fails with the timeout error, however many
\* of the events carried errors.
PollingErrorsAreNotFatal ==
  /\ [][(nPolls' = nPolls + 1 /\ monitorResult'.Error) =>
          /\ pc' = "JobPolling" /\ retErr' = NoError
          /\ pollErrors' = pollErrors + 1]_vars
  /\ []((pc = "JobPolling" /\ ~monitorResult.Status.IsComplete /\ nPolls < MaxPolls) =>
          ENABLED MonitorEvent)
  /\ [][(pc = "JobPolling" /\ pc' # "JobPolling") =>
          /\ ~monitorResult.isNil /\ pollErrors \in 0..nPolls
          /\ jobStatus' = monitorResult.Status
          /\ IF monitorResult.Status.IsComplete
               THEN pc' = "BuildPipeline" /\ retErr' = NoError
               ELSE pc' = "Failed" /\ retErr'.kind = "timeout"]_vars

PollingErrorsWitness ==
  /\ pc = "JobPolling" /\ pollErrors >= 1 /\ nPolls >= 2
  /\ monitorResult.Status.IsComplete /\ ~monitorResult.Error

\* C17: StartExport is invoked at most once in a run, only when no pending job
\* URL was supplied, and with the watermark Load returned in this run; a run
\* that has left JobResolving has invoked it exactly when no pending job URL
\* was supplied. The job URL the monitor polls is the supplied one, or else
\* the one StartExport returned, and it never changes once it is known.
JobResolvedOnce ==
  /\ [](/\ nStartExport <= 1
        /\ nStartExport = 1 <=> "StartExport" \in called
        /\ nStartExport = 1 =>
             /\ cfg.pendingJobURL = ""
             /\ "Load" \in called /\ since # Nil /\ startSince = since
             /\ jobURL \in {"", StartedJob}
        /\ (since # Nil /\ pc # "JobResolving") =>
             (nStartExport = 1 <=> cfg.pendingJobURL = "")
        /\ cfg.pendingJobURL # "" =>
             /\ nStartExport = 0 /\ startSince = Nil
             /\ jobURL \in {"", cfg.pendingJobURL}
        /\ (pc = "JobPolling" \/ "GetJobStatus" \in called) =>
             jobURL = IF cfg.pendingJobURL # "" THEN cfg.pendingJobURL ELSE StartedJob)
  /\ [][jobURL # "" => jobURL' = jobURL]_vars

JobResolvedWitness ==
  /\ "GetJobStatus" \in called /\ nStartExport = 1 /\ jobURL = StartedJob
  /\ startSince \in Instants /\ cfg.sinceFile = LocalSinceFile

\* C18: the Download calls are issued in an order the job status determines: at
\* no point of a run can the outer loop go on to either of two different
\* resource types (two runs on the same job status would then differ), and
\* the URLs of one resource type are fetched in list order.
DownloadOrderDetermined ==
  /\ \A a, b \in ResourceTypes :
       (/\ ENABLED (RangeResourceTypes /\ resourceType' = a /\ pc' = "RangeURLs")
        /\ ENABLED (RangeResourceTypes /\ resourceType' = b /\ pc' = "RangeURLs"))
         => a = b
  /\ \A i, j \in 1..Len(streams) :
       (i < j /\ streams[i][1] = streams[j][1]) => streams[i][2] < streams[j][2]

\* C19: an Authenticate call of getDataOrExit that fails ends the fetch and the
\* run in that step with the authentication error, whatever the number of
\* retries made so far: the download is not tried again (the attempts made are
\* one more than the retries completed, fewer than five), the URL yields no
\* stream, no later call is made, Finalize and Store are never invoked and the
\* checkpoint is left as it was.
AuthenticateFailureAborts ==
  /\ [](retErr.kind = "authenticate" =>
          /\ pc = "Failed"
          /\ getErr.kind \in {"unauthorized", "retryable"}
          /\ numRetries \in 0..(MaxRetries - 1)
          /\ auths = numRetries + 1 /\ attempts = numRetries + 1
          /\ CurrentURL \notin StreamSet
          /\ nFinalize = 0 /\ "Finalize" \notin called
          /\ nStore = 0 /\ "Store" \notin called
          /\ memValue = cfg.since)
  /\ [][(auths' = auths + 1 /\ pc' # "RetryGetData") =>
          /\ pc' = "Failed" /\ retErr'.kind = "authenticate"
          /\ UNCHANGED <<attempts, numRetries, streams, sinceFileLines, memValue>>]_vars
  /\ [][retErr.kind = "authenticate" =>
          UNCHANGED <<called, attempts, auths, numRetries, streams,
                      sinceFileLines, memValue>>]_vars

AuthenticateFailureWitness ==
  /\ pc = "Failed" /\ retErr.kind = "authenticate"
  /\ numRetries = 2 /\ auths = 3 /\ Len(streams) >= 1

\* C20: no stream is closed while the run is going: every URL fetched so far
\* (each at most once) has its stream open; streams are closed in one step
\* only, the return of mainWrapper, which closes every stream fetched, whether
\* the run ends in Done or in Failed, and nothing is closed again after it.
StreamsClosedAtReturn ==
  /\ [](/\ Cardinality(StreamSet) = Len(streams)
        /\ closed \subseteq StreamSet
        /\ ~Terminated => /\ closed = {}
                          /\ Cardinality(StreamSet \ closed) = Len(streams)
        /\ Terminated => closed = StreamSet)
  /\ [][closed' # closed =>
          /\ closed = {} /\ ~Terminated /\ Terminated'
          /\ streams' = streams /\ closed' = StreamSet]_vars
  /\ [][Terminated => closed' = closed /\ streams' = streams]_vars

StreamsClosedWitness ==
  /\ pc = "Failed" /\ retErr.kind = "process"
  /\ Len(streams) >= 2 /\ closed = StreamSet

====
